---- MODULE Spec2Model ----
(***************************************************************************)
(* WarmaneCrawler.getMatchDetails (src/src/lib/crawler/crawler.ts): the    *)
(* per-identifier fetch loop, the Bottleneck limiter it submits to, the    *)
(* in-place normalisation of the fetched character details and the join    *)
(* with the caller's match summaries.                                      *)
(***************************************************************************)
EXTENDS Integers, Sequences, FiniteSets, TLC

\* ------------------------------------------------------------------ bounds
\* longest enumerated input list (all lists up to this length are inputs)
MaxSummaries == 3

\* new Bottleneck({ maxConcurrent: 32 })
maxConcurrent == 32

\* ----------------------------------------------------------------- strings
\* A string is a sequence of one-character strings.
Digits == {"0", "1", "2", "3", "4", "5", "6", "7", "8", "9"}
Whitespace == {" "}

Min(S) == CHOOSE x \in S : \A y \in S : x <= y

\* s has the literal lit at position p
HasAt(s, p, lit) ==
    /\ p + Len(lit) - 1 <= Len(s)
    /\ \A k \in 1..Len(lit) : s[p + k - 1] = lit[k]

\* first position >= p whose character is not in the class C (greedy C*),
\* Len(s) + 1 when the run reaches the end
RECURSIVE RunEnd(_, _, _)
RunEnd(s, p, C) ==
    IF p > Len(s) THEN Len(s) + 1
    ELSE IF s[p] \notin C THEN p
    ELSE RunEnd(s, p + 1, C)

SpanOpen  == <<"(", "<", "s", "p", "a", "n">>
SpanClose == <<"<", "/", "s", "p", "a", "n">>

\* /((\+|-)\d+)(?=<\/span)/ tried at position p: 0 when it does not match
\* there, else the position after the match.  The digit run is greedy and a
\* shorter run is followed by a digit, never by "<", so backtracking cannot
\* produce another match at p.  (A quantifier over a one-element set names a
\* value that is computed once.)
changeRegexAt(s, p) ==
    IF /\ p <= Len(s)
       /\ s[p] \in {"+", "-"}
       /\ \E e \in {RunEnd(s, p + 1, Digits)} :
              e > p + 1 /\ HasAt(s, e, SpanClose)
    THEN RunEnd(s, p + 1, Digits)
    ELSE 0

\* /(-?\d{1,})(?=\s*\(<span)/ tried at position p, same convention.
overallRegexAt(s, p) ==
    LET d == IF p <= Len(s) /\ s[p] = "-" THEN p + 1 ELSE p
    IN  IF /\ d <= Len(s)
           /\ \E e \in {RunEnd(s, d, Digits)} :
                  /\ e > d
                  /\ \E w \in {RunEnd(s, e, Whitespace)} : HasAt(s, w, SpanOpen)
        THEN RunEnd(s, d, Digits)
        ELSE 0

\* String.prototype.match without the g flag: the leftmost match, as the
\* matched text match[0]; NoMatch when there is none (null).
NoMatch == <<"null">>

\* P is the set of positions at which the regex matches

MatchChange(s) ==
    CHOOSE m \in
        {IF P = {} THEN NoMatch
         ELSE SubSeq(s, Min(P), changeRegexAt(s, Min(P)) - 1) :
            P \in {{p \in 1..Len(s) : changeRegexAt(s, p) # 0}}} : TRUE

MatchOverall(s) ==
    CHOOSE m \in
        {IF P = {} THEN NoMatch
         ELSE SubSeq(s, Min(P), overallRegexAt(s, Min(P)) - 1) :
            P \in {{p \in 1..Len(s) : overallRegexAt(s, p) # 0}}} : TRUE

\* /<[^>]+>/ tried at position p: 0, or the position after the closing ">".
\* [^>]+ needs at least one character, so "<>" is not a tag.
TagAt(s, p) ==
    IF /\ p <= Len(s)
       /\ s[p] = "<"
       /\ p + 1 <= Len(s)
       /\ s[p + 1] # ">"
       /\ \E q \in (p + 2)..Len(s) : s[q] = ">"
    THEN Min({q \in (p + 2)..Len(s) : s[q] = ">"}) + 1
    ELSE 0

\* s.replace(/<[^>]+>/g, ""), scanning from position p
RECURSIVE StripFrom(_, _)
StripFrom(s, p) ==
    IF p > Len(s) THEN <<>>
    ELSE IF TagAt(s, p) # 0 THEN StripFrom(s, TagAt(s, p))
    ELSE <<s[p]>> \o StripFrom(s, p + 1)

StripTags(s) == StripFrom(s, 1)

\* `${change} (${overall})`
FormatChange(change, overall) == change \o <<" ", "(">> \o overall \o <<")">>

\* NormalizeChange as it would be with || in place of && in the test: a field
\* is rewritten as soon as one of the two matches succeeds
NormalizeChangeEither(raw) ==
    CHOOSE r \in
        {IF change # NoMatch \/ overall # NoMatch
         THEN FormatChange(IF change # NoMatch THEN change ELSE <<>>,
                           IF overall # NoMatch THEN overall ELSE <<>>)
         ELSE raw :
            change \in {MatchChange(raw)}, overall \in {MatchOverall(raw)}} : TRUE

\* the rewrite of one change field (lines 195-201 and 206-212): change and
\* overall are the two match results
NormalizeChange(raw) ==
    CHOOSE r \in
        {IF change # NoMatch /\ overall # NoMatch
         THEN FormatChange(change, overall)
         ELSE raw :
            change \in {MatchChange(raw)}, overall \in {MatchOverall(raw)}} : TRUE

\* a property is truthy: present and not the empty string
Truthy(cd, f) == f \in DOMAIN cd /\ cd[f] # <<>>

\* NormalizeDetail as it would be if a missing change field were defaulted to
\* the empty string
NormalizeDetailFills(cd) ==
    [f \in DOMAIN cd \cup {"matchmaking_change", "personal_change"} |->
        IF f \notin DOMAIN cd THEN <<>>
        ELSE IF f = "teamnamerich" THEN StripTags(cd[f])
        ELSE IF f \in {"matchmaking_change", "personal_change"} /\ Truthy(cd, f)
             THEN NormalizeChange(cd[f])
        ELSE cd[f]]

\* the forEach callback, lines 184-214, as the record it leaves behind
NormalizeDetail(cd) ==
    [f \in DOMAIN cd |->
        IF f = "teamnamerich" THEN StripTags(cd[f])
        ELSE IF f \in {"matchmaking_change", "personal_change"} /\ Truthy(cd, f)
             THEN NormalizeChange(cd[f])
        ELSE cd[f]]

\* characterDetails.forEach(...)
NormalizeBatch(batch) == [k \in 1..Len(batch) |-> NormalizeDetail(batch[k])]

\* ------------------------------------------------------- summary extractor
\* String.prototype.trim
Trim(s) ==
    LET K == {k \in 1..Len(s) : s[k] \notin Whitespace}
    IN  IF K = {} THEN <<>>
        ELSE SubSeq(s, Min(K), CHOOSE k \in K : \A m \in K : m <= k)

\* \((\d+v\d+)\) tried at position q: 0, or the position of the closing ")"
BracketAt(s, q) ==
    LET e1 == RunEnd(s, q + 1, Digits)
        e2 == RunEnd(s, e1 + 1, Digits)
    IN  IF /\ q <= Len(s) /\ s[q] = "("
           /\ e1 > q + 1
           /\ e1 <= Len(s) /\ s[e1] = "v"
           /\ e2 > e1 + 1
           /\ e2 <= Len(s) /\ s[e2] = ")"
        THEN e2
        ELSE 0

\* teamBracketText.match(/(.*?)\s*\((\d+v\d+)\)/): the lazy prefix is the
\* shortest one after which whitespace and a bracket follow; the lengths of
\* prefix that match, empty when the text does not match
teamBracketPrefixes(s) ==
    {n \in 0..Len(s) : BracketAt(s, RunEnd(s, n + 1, Whitespace)) # 0}

\* lines 90-101: <<team_name, bracket>>
SplitTeamBracket(teamBracketText) ==
    IF teamBracketText # <<>> /\ teamBracketPrefixes(teamBracketText) # {}
    THEN LET n == Min(teamBracketPrefixes(teamBracketText))
             q == RunEnd(teamBracketText, n + 1, Whitespace)
         IN  <<SubSeq(teamBracketText, 1, n),
               SubSeq(teamBracketText, q + 1, BracketAt(teamBracketText, q) - 1)>>
    ELSE <<<<>>, <<>>>>

\* lines 80-113: the summary of one table row; a row is the text of its
\* cells td1..td7 and of the anchor in the second cell
ExtractRow(row) ==
    [matchId |-> Trim(row.td1),
     team_name |-> SplitTeamBracket(Trim(row.td2a))[1],
     date |-> Trim(row.td5),
     bracket |-> SplitTeamBracket(Trim(row.td2a))[2],
     arena |-> Trim(row.td7),
     points_change |-> Trim(row.td4),
     outcome |-> Trim(row.td3),
     duration |-> Trim(row.td6)]

\* lines 75-117: one summary per row, in document order
extractMatchSummaries(html) == [k \in 1..Len(html) |-> ExtractRow(html[k])]

\* ------------------------------------------------------------------ inputs
Row(id, teamBracket, outcome) ==
    [td1 |-> id, td2a |-> teamBracket, td3 |-> outcome, td4 |-> <<"+", "9">>,
     td5 |-> <<"d">>, td6 |-> <<"3", "m">>, td7 |-> <<"N">>]

TeamText == <<"A", "l", " ", "S", " ", "(", "2", "v", "2", ")", " ">>
SoloText == <<"S", "o", "l", "o", " ", "(", "v", ")">>

RowPool ==
    {Row(<<" ", "A", " ">>, TeamText, <<"W">>),
     Row(<<"A">>, SoloText, <<" ", "L">>),
     Row(<<"B">>, TeamText, <<"L">>),
     Row(<<"C">>, <<>>, <<"W">>)}

RECURSIVE SeqsUpTo(_, _)
SeqsUpTo(S, n) ==
    IF n = 0 THEN {<<>>}
    ELSE LET shorter == SeqsUpTo(S, n - 1)
         IN  shorter \cup {Append(q, x) : q \in {r \in shorter : Len(r) = n - 1}, x \in S}

\* one document longer than the limiter's capacity: maxConcurrent + 1 rows
LongDocument ==
    [k \in 1..(maxConcurrent + 1) |->
        IF k % 2 = 1 THEN Row(<<"A">>, TeamText, <<"W">>)
                     ELSE Row(<<"B">>, TeamText, <<"L">>)]

\* the history documents the site may hold
Documents == SeqsUpTo(RowPool, MaxSummaries) \cup {LongDocument}

\* what extractMatchSummaries returns for each document, computed once
extractedSummaries == [html \in Documents |-> extractMatchSummaries(html)]

\* the summary lists a caller obtains from getMatchSummaries
InputLists == {extractedSummaries[html] : html \in Documents}

\* raw change fields as the site sends them
RawWin  == <<"1", "5", " ", "(", "<", "s", "p", "a", "n", ">",
             "+", "2", "<", "/", "s", "p", "a", "n", ">", ")">>
RawLoss == <<"-", "7", "(", "<", "s", "p", "a", "n", ">",
             "-", "3", "<", "/", "s", "p", "a", "n", ">", ")">>
RawNoOverall == <<"+", "2", "<", "/", "s", "p", "a", "n", ">">>
RichTeam == <<"<", "b", ">", "T", "<", "/", "b", ">">>

\* interface CharacterDetail, lines 16-30 (matchmaking_change is optional)
DetailFull == [charname |-> "Ann", teamnamerich |-> RichTeam,
               matchmaking_change |-> RawWin, personal_change |-> RawLoss]
DetailNoMM == [charname |-> "Bob", teamnamerich |-> <<"T">>,
               personal_change |-> <<>>]
DetailOdd  == [charname |-> "Cid", teamnamerich |-> <<"<", ">", "T">>,
               matchmaking_change |-> <<>>, personal_change |-> RawNoOverall]

BatchPool == {<<>>, <<DetailFull>>, <<DetailNoMM, DetailOdd>>}

\* change fields put together from the parts of "<overall> (<span>delta</span>)",
\* each part present, absent or malformed
OverallParts == {<<>>, <<"2", "0", "0">>, <<"-", "7">>, <<"x">>}
GapParts == {<<>>, <<" ">>}
OpenParts == {<<"(", "<", "s", "p", "a", "n", ">">>, <<"(", "<", "b", ">">>, <<>>}
DeltaParts == {<<"+", "1", "5">>, <<"-", "3">>, <<"2">>, <<>>}
CloseParts == {<<"<", "/", "s", "p", "a", "n", ">">>, <<"<", "/", "b", ">">>}

RawPool ==
    {o \o g \o b \o d \o c \o <<")">> :
        o \in OverallParts, g \in GapParts, b \in OpenParts,
        d \in DeltaParts, c \in CloseParts}

\* character details that carry such a field as matchmaking_change or as
\* personal_change
DetailPool ==
    {[charname |-> "Ann", teamnamerich |-> RichTeam,
      matchmaking_change |-> raw, personal_change |-> <<>>] : raw \in RawPool}
    \cup
    {[charname |-> "Bob", teamnamerich |-> <<"T">>,
      personal_change |-> raw] : raw \in RawPool}

\* ------------------------------------------------------------------- state
VARIABLES
    pc,                \* where the async call chain stands
    matchSummaries,    \* params.matchSummaries, the caller's list
    matchIds,          \* const matchIds
    matchDetailsList,  \* const matchDetailsList
    idx,               \* position of the for-of loop in matchIds
    queued,            \* limiter: submitted jobs not yet started, in order
    running,           \* limiter: jobs started and not yet completed
    status,            \* per job: "none", "queued", "running", "ok", "err"
    posted,            \* per job: the matchinfo value of its POST
    issued,            \* per job: how many POSTs were made for it
    data,              \* per job: response.data of a successful POST
    remote,            \* what the site holds for each identifier
    result,            \* how the call ended: pending, returned list, thrown
    joined,            \* history: the jobs whose batch was pushed, in order
    skipped,           \* history: how often the "summary not found" branch ran
    history            \* the GET of fetchAllMatchDetails: "none" when
                       \* getMatchDetails is called directly, else "pending",
                       \* "ok" or "err"

vars == <<history, pc, matchSummaries, matchIds, matchDetailsList, idx, queued, running,
          status, posted, issued, data, remote, result, joined, skipped>>

Jobs == 1..Len(matchIds)

IdsOf(list) == {list[k].matchId : k \in 1..Len(list)}

Pending == [kind |-> "pending"]
Returned(list) == [kind |-> "returned", list |-> list]
Thrown(job) == [kind |-> "thrown", error |-> "RemoteFetchError", job |-> job]

\* The caller either calls getMatchDetails with a summary list it holds, or
\* calls fetchAllMatchDetails, whose GET of the history page is then pending.
Init ==
    /\ \/ /\ pc = "call"
          /\ history = "none"
          /\ matchSummaries \in InputLists
          /\ remote \in [IdsOf(matchSummaries) -> BatchPool]
       \/ /\ pc = "history"
          /\ history = "pending"
          /\ matchSummaries = <<>>
          /\ remote = <<>>
    /\ matchIds = <<>>
    /\ matchDetailsList = <<>>
    /\ idx = 0
    /\ queued = <<>>
    /\ running = {}
    /\ status = <<>>
    /\ posted = <<>>
    /\ issued = <<>>
    /\ data = <<>>
    /\ result = Pending
    /\ joined = <<>>
    /\ skipped = 0

\* lines 239 and 124-126: the GET of the history page is answered; the
\* summaries are extracted and passed on to getMatchDetails (line 241)
HistoryOk(html) ==
    /\ pc = "history"
    /\ matchSummaries' = extractedSummaries[html]
    /\ remote' \in [IdsOf(extractedSummaries[html]) -> BatchPool]
    /\ pc' = "call"
    /\ history' = "ok"
    /\ UNCHANGED <<matchIds, matchDetailsList, idx, queued, running, status,
                   posted, issued, data, result, joined, skipped>>

\* HistoryFail as it would be if the rejection were caught and the details
\* fetched for a list kept from an earlier crawl
HistoryFailFallsBack ==
    /\ pc = "history"
    /\ history' = "err"
    /\ matchSummaries' \in InputLists
    /\ remote' \in [IdsOf(matchSummaries') -> BatchPool]
    /\ pc' = "call"
    /\ UNCHANGED <<matchIds, matchDetailsList, idx, queued, running, status,
                   posted, issued, data, result, joined, skipped>>

\* lines 67 and 239: the GET fails and the rejection leaves
\* fetchAllMatchDetails
HistoryFail ==
    /\ pc = "history"
    /\ history' = "err"
    /\ result' = Thrown(0)
    /\ pc' = "failed"
    /\ UNCHANGED <<matchSummaries, matchIds, matchDetailsList, idx, queued,
                   running, status, posted, issued, data, remote, joined,
                   skipped>>

\* lines 166-171: matchIds, the empty result list, the limiter and its wrapper
Enter ==
    /\ pc = "call"
    /\ matchIds' = [k \in 1..Len(matchSummaries) |-> matchSummaries[k].matchId]
    /\ matchDetailsList' = <<>>
    /\ idx' = 1
    /\ queued' = <<>>
    /\ running' = {}
    /\ status' = [k \in 1..Len(matchSummaries) |-> "none"]
    /\ posted' = [k \in 1..Len(matchSummaries) |-> <<>>]
    /\ issued' = [k \in 1..Len(matchSummaries) |-> 0]
    /\ data' = [k \in 1..Len(matchSummaries) |-> <<>>]
    /\ pc' = "loop"
    /\ UNCHANGED <<history, matchSummaries, remote, result, joined, skipped>>

\* Submit as it would be if every fetch were fired at once, around the
\* limiter: matchIds.map(id => this.fetchMatchData(...)), each awaited in turn
SubmitAllUnlimited ==
    /\ pc = "loop"
    /\ idx <= Len(matchIds)
    /\ LET fresh == {j \in Jobs : status[j] = "none"}
       IN  /\ running' = running \cup fresh
           /\ status' = [j \in Jobs |-> IF j \in fresh THEN "running" ELSE status[j]]
           /\ posted' = [j \in Jobs |-> IF j \in fresh THEN matchIds[j] ELSE posted[j]]
           /\ issued' = [j \in Jobs |-> IF j \in fresh THEN issued[j] + 1 ELSE issued[j]]
    /\ pc' = "await"
    /\ UNCHANGED <<history, matchSummaries, matchIds, matchDetailsList, idx, queued,
                   data, remote, result, joined, skipped>>

\* lines 176-181: the loop takes the next identifier, hands its fetch to the
\* limiter and suspends on the returned promise
Submit ==
    /\ pc = "loop"
    /\ idx <= Len(matchIds)
    /\ queued' = Append(queued, idx)
    /\ status' = [status EXCEPT ![idx] = "queued"]
    /\ pc' = "await"
    /\ UNCHANGED <<history, matchSummaries, matchIds, matchDetailsList, idx, running,
                   posted, issued, data, remote, result, joined, skipped>>

\* PostBody as it would be if the loop variable were shared by all calls
PostBodyLast(j) == matchIds[Len(matchIds)]

\* line 140: the body of the POST of job j, `matchinfo=${params.matchId}`
PostBody(j) == matchIds[j]

\* the limiter starts its oldest queued job when it has capacity; the job
\* runs fetchMatchData, which makes its POST (lines 138-149)
LimiterStart ==
    /\ queued # <<>>
    /\ Cardinality(running) < maxConcurrent
    /\ LET j == Head(queued)
       IN  /\ queued' = Tail(queued)
           /\ running' = running \cup {j}
           /\ status' = [status EXCEPT ![j] = "running"]
           /\ posted' = [posted EXCEPT ![j] = PostBody(j)]
           /\ issued' = [issued EXCEPT ![j] = @ + 1]
    /\ UNCHANGED <<history, pc, matchSummaries, matchIds, matchDetailsList, idx, data,
                   remote, result, joined, skipped>>

\* the POST of job j is answered: fetchMatchData returns response.data
\* (line 151) and the limiter's promise resolves
FetchOk(j) ==
    /\ j \in running
    /\ running' = running \ {j}
    /\ status' = [status EXCEPT ![j] = "ok"]
    /\ data' = [data EXCEPT ![j] = remote[posted[j]]]
    /\ UNCHANGED <<history, pc, matchSummaries, matchIds, matchDetailsList, idx, queued,
                   posted, issued, remote, result, joined, skipped>>

\* FetchFail as it would be if the limiter ran a failed job once more
FetchFailRetry(j) ==
    /\ j \in running
    /\ running' = running \ {j}
    /\ IF issued[j] < 2
       THEN /\ status' = [status EXCEPT ![j] = "queued"]
            /\ queued' = Append(queued, j)
       ELSE /\ status' = [status EXCEPT ![j] = "err"]
            /\ queued' = queued
    /\ UNCHANGED <<history, pc, matchSummaries, matchIds, matchDetailsList, idx,
                   posted, issued, data, remote, result, joined, skipped>>

\* the POST of job j fails: axios.post rejects, fetchMatchData rejects, the
\* limiter's promise rejects
FetchFail(j) ==
    /\ j \in running
    /\ running' = running \ {j}
    /\ status' = [status EXCEPT ![j] = "err"]
    /\ UNCHANGED <<history, pc, matchSummaries, matchIds, matchDetailsList, idx, queued,
                   posted, issued, data, remote, result, joined, skipped>>

\* FindSummary as it would be if the search started one element too late
FindSummaryOffByOne(list, matchId) ==
    IF \E k \in 2..Len(list) : list[k].matchId = matchId
    THEN Min({k \in 2..Len(list) : list[k].matchId = matchId})
    ELSE 0

\* FindSummary as it would be with findLast in place of find
FindSummaryLast(list, matchId) ==
    IF \E k \in 1..Len(list) : list[k].matchId = matchId
    THEN CHOOSE k \in 1..Len(list) :
             /\ list[k].matchId = matchId
             /\ \A m \in (k + 1)..Len(list) : list[m].matchId # matchId
    ELSE 0

\* params.matchSummaries.find(s => s.matchId === matchId): the position of
\* the first summary with that identifier, 0 for undefined
FindSummary(list, matchId) ==
    IF \E k \in 1..Len(list) : list[k].matchId = matchId
    THEN Min({k \in 1..Len(list) : list[k].matchId = matchId})
    ELSE 0

\* { ...matchSummary, character_details: characterDetails }
Combine(matchSummary, characterDetails) ==
    [f \in DOMAIN matchSummary \cup {"character_details"} |->
        IF f = "character_details" THEN characterDetails ELSE matchSummary[f]]

\* Push as unshift, and Push as it would be with the push repeated
PushFront(list, matchDetails) == <<matchDetails>> \o list
PushTwice(list, matchDetails) == list \o <<matchDetails, matchDetails>>

\* line 228: matchDetailsList.push(matchDetails)
Push(list, matchDetails) == Append(list, matchDetails)

\* Join as it would be if the details were assigned to the summary that find
\* returned instead of to a new object
JoinInPlace ==
    /\ pc = "await"
    /\ status[idx] = "ok"
    /\ LET characterDetails == NormalizeBatch(data[idx])
           found == FindSummary(matchSummaries, matchIds[idx])
       IN  IF found # 0
           THEN /\ matchSummaries' =
                     [matchSummaries EXCEPT
                         ![found] = Combine(matchSummaries[found], characterDetails)]
                /\ matchDetailsList' =
                     Push(matchDetailsList,
                          Combine(matchSummaries[found], characterDetails))
                /\ joined' = Append(joined, idx)
                /\ skipped' = skipped
           ELSE /\ matchSummaries' = matchSummaries
                /\ matchDetailsList' = matchDetailsList
                /\ joined' = joined
                /\ skipped' = skipped + 1
    /\ idx' = idx + 1
    /\ pc' = "loop"
    /\ UNCHANGED <<history, matchIds, queued, running, status, posted,
                   issued, data, remote, result>>

\* Join as it would be without the await: the batch is taken before the
\* fetch has answered
JoinWithoutAwait ==
    /\ pc = "await"
    /\ status[idx] \in {"queued", "running", "ok"}
    /\ matchDetailsList' =
          Append(matchDetailsList,
                 [matchSummaries[FindSummary(matchSummaries, matchIds[idx])]
                    EXCEPT !.matchId = matchIds[idx]])
    /\ joined' = Append(joined, idx)
    /\ idx' = idx + 1
    /\ pc' = "loop"
    /\ UNCHANGED <<history, matchSummaries, matchIds, queued, running, status, posted,
                   issued, data, remote, result, skipped>>

\* lines 184-230: the awaited promise resolved; normalise the batch in place,
\* find the summary, push the combined record, go to the next identifier
Join ==
    /\ pc = "await"
    /\ status[idx] = "ok"
    /\ LET characterDetails == NormalizeBatch(data[idx])
           found == FindSummary(matchSummaries, matchIds[idx])
       IN  IF found # 0
           THEN /\ matchDetailsList' =
                     Push(matchDetailsList,
                          Combine(matchSummaries[found], characterDetails))
                /\ joined' = Append(joined, idx)
                /\ skipped' = skipped
           ELSE /\ matchDetailsList' = matchDetailsList
                /\ joined' = joined
                /\ skipped' = skipped + 1
    /\ idx' = idx + 1
    /\ pc' = "loop"
    /\ UNCHANGED <<history, matchSummaries, matchIds, queued, running, status, posted,
                   issued, data, remote, result>>

\* Throw as it would be with a timeout on the awaited fetch
ThrowOnTimeout ==
    /\ pc = "await"
    /\ status[idx] \in {"running", "err"}
    /\ result' = Thrown(idx)
    /\ pc' = "failed"
    /\ UNCHANGED <<history, matchSummaries, matchIds, matchDetailsList, idx,
                   queued, running, status, posted, issued, data, remote,
                   joined, skipped>>

\* Throw as it would be if the rejection were caught inside the loop and the
\* loop went on with the next identifier
ThrowSkipsIdentifier ==
    /\ pc = "await"
    /\ status[idx] = "err"
    /\ idx' = idx + 1
    /\ pc' = "loop"
    /\ UNCHANGED <<history, matchSummaries, matchIds, matchDetailsList, queued, running,
                   status, posted, issued, data, remote, result, joined,
                   skipped>>

\* Throw as it would be if the rejection were caught and the list so far
\* returned
ThrowReturnsPartial ==
    /\ pc = "await"
    /\ status[idx] = "err"
    /\ result' = Returned(matchDetailsList)
    /\ pc' = "done"
    /\ UNCHANGED <<history, matchSummaries, matchIds, matchDetailsList, idx, queued,
                   running, status, posted, issued, data, remote, joined,
                   skipped>>

\* line 177: the awaited promise rejected; the rejection leaves the function
Throw ==
    /\ pc = "await"
    /\ status[idx] = "err"
    /\ result' = Thrown(idx)
    /\ pc' = "failed"
    /\ UNCHANGED <<history, matchSummaries, matchIds, matchDetailsList, idx, queued,
                   running, status, posted, issued, data, remote, joined,
                   skipped>>

\* line 231: the loop is over, return matchDetailsList
Return ==
    /\ pc = "loop"
    /\ idx > Len(matchIds)
    /\ result' = Returned(matchDetailsList)
    /\ pc' = "done"
    /\ UNCHANGED <<history, matchSummaries, matchIds, matchDetailsList, idx, queued,
                   running, status, posted, issued, data, remote, joined,
                   skipped>>

\* (HistoryOk's guard is repeated in front of the quantifier so that the
\* documents are enumerated only where the step can be taken)
Next ==
    \/ pc = "history" /\ \E html \in Documents : HistoryOk(html)
    \/ HistoryFail
    \/ Enter
    \/ Submit
    \/ LimiterStart
    \/ \E j \in Jobs : FetchOk(j)
    \/ \E j \in Jobs : FetchFail(j)
    \/ Join
    \/ Throw
    \/ Return

Spec == Init /\ [][Next]_vars

\* The event loop runs every continuation that is ready and the limiter
\* starts a job it has room for; every request that was sent is answered.
Fairness ==
    /\ WF_vars(Enter \/ Submit \/ LimiterStart \/ Join \/ Throw \/ Return)
    /\ WF_vars(\E j \in Jobs : FetchOk(j) \/ FetchFail(j))
    /\ WF_vars((pc = "history" /\ \E html \in Documents : HistoryOk(html))
                   \/ HistoryFail)

FairSpec == Init /\ [][Next]_vars /\ Fairness

\* The same program called with one summary whose batch holds one character
\* detail out of DetailPool, so that every shape of a change field is
\* normalized; the path through fetchAllMatchDetails is as in Init.
NormInit ==
    /\ \/ /\ pc = "call"
          /\ history = "none"
          /\ matchSummaries \in {list \in InputLists : Len(list) = 1}
          /\ remote \in [IdsOf(matchSummaries) -> {<<cd>> : cd \in DetailPool}]
       \/ /\ pc = "history"
          /\ history = "pending"
          /\ matchSummaries = <<>>
          /\ remote = <<>>
    /\ matchIds = <<>>
    /\ matchDetailsList = <<>>
    /\ idx = 0
    /\ queued = <<>>
    /\ running = {}
    /\ status = <<>>
    /\ posted = <<>>
    /\ issued = <<>>
    /\ data = <<>>
    /\ result = Pending
    /\ joined = <<>>
    /\ skipped = 0

NormSpec == NormInit /\ [][Next]_vars

\* ------------------------------------------------------------- properties
MatchIdsOf(list) == [k \in 1..Len(list) |-> list[k].matchId]

\* a can be obtained from b by deleting elements (from positions i and j on)
RECURSIVE SubsequenceFrom(_, _, _, _)
SubsequenceFrom(a, i, b, j) ==
    IF i > Len(a) THEN TRUE
    ELSE IF j > Len(b) THEN FALSE
    ELSE IF a[i] = b[j] THEN SubsequenceFrom(a, i + 1, b, j + 1)
    ELSE SubsequenceFrom(a, i, b, j + 1)

InFlight == Cardinality(running)

\* C1: the matchIds of the returned list are in the relative order of the
\* matchIds of the input summaries, whatever the fetches did.
OutputOrderIsInputOrder ==
    result.kind = "returned" =>
        SubsequenceFrom(MatchIdsOf(result.list), 1, MatchIdsOf(matchSummaries), 1)

OutputOrderWitness ==
    /\ result.kind = "returned"
    /\ Len(result.list) >= 2
    /\ result.list[1].matchId # result.list[2].matchId

\* C2: once a detail fetch has failed the call never returns a list; it ends
\* with the error, and the records joined so far are not handed out.
NoPartialResult ==
    /\ (\E j \in Jobs : status[j] = "err") => result.kind # "returned"
    /\ pc = "failed" => result.kind = "thrown" /\ result.error = "RemoteFetchError"
    /\ \A j \in Jobs : status[j] = "err" =>
          j = idx /\ (result.kind = "thrown" => result.job = j)

NoPartialResultWitness ==
    /\ pc = "failed"
    /\ \E j \in Jobs : status[j] = "err"
    /\ matchDetailsList # <<>>

\* C3: at most 32 fetches are started and not yet completed, for any number
\* of identifiers.
InFlightAtMostMaxConcurrent == InFlight <= maxConcurrent

InFlightWitness ==
    /\ Len(matchIds) > maxConcurrent
    /\ idx > maxConcurrent
    /\ running # {}

\* C4: the returned list is no longer than the input list and every returned
\* matchId is the matchId of an input summary.
JoinIsAFilter ==
    /\ Len(matchDetailsList) <= Len(matchSummaries)
    /\ result.kind = "returned" =>
          /\ Len(result.list) <= Len(matchSummaries)
          /\ \A k \in 1..Len(result.list) :
                result.list[k].matchId \in IdsOf(matchSummaries)

JoinIsAFilterWitness ==
    /\ result.kind = "returned"
    /\ Len(result.list) >= 2
    /\ Cardinality(IdsOf(matchSummaries)) = 1

\* C5: every returned record holds the (normalised) batch answered to the
\* POST made for the record's own matchId.
BatchAttributedToOwnId ==
    /\ Len(joined) = Len(matchDetailsList)
    /\ \A k \in 1..Len(matchDetailsList) :
          /\ posted[joined[k]] = matchDetailsList[k].matchId
          /\ matchDetailsList[k].character_details = NormalizeBatch(data[joined[k]])
          /\ data[joined[k]] = remote[matchDetailsList[k].matchId]
    /\ result.kind = "returned" => result.list = matchDetailsList

BatchAttributedWitness ==
    /\ result.kind = "returned"
    /\ \E k, m \in 1..Len(result.list) :
          /\ result.list[k].matchId # result.list[m].matchId
          /\ result.list[k].character_details # <<>>
          /\ result.list[m].character_details # <<>>
          /\ result.list[k].character_details # result.list[m].character_details

\* C6: the matchId of every output record is the matchId of exactly one
\* summary of the input list, for every list the extractor can produce.
ExactlyOneSourceSummary ==
    \A k \in 1..Len(matchDetailsList) :
        Cardinality({m \in 1..Len(matchSummaries) :
                        matchSummaries[m].matchId = matchDetailsList[k].matchId}) = 1

\* C7: when every fetch succeeded the call returns one record per input
\* summary, each with as many character details as its batch, and the
\* "summary not found" branch was never taken.
OneRecordPerSummary ==
    /\ skipped = 0
    /\ result.kind = "returned" =>
          /\ Len(result.list) = Len(matchSummaries)
          /\ \A k \in 1..Len(result.list) :
                /\ status[k] = "ok"
                /\ Len(result.list[k].character_details) = Len(data[k])

OneRecordPerSummaryWitness ==
    /\ result.kind = "returned"
    /\ MatchIdsOf(result.list) = << <<"A">>, <<"B">>, <<"C">> >>
    /\ \A k \in 1..3 : Len(result.list[k].character_details) = 1

\* C8: while the loop waits for the fetch of identifier i and later
\* identifiers exist, the limiter already holds the fetch of a later one, so
\* that more than one fetch can be in flight.
LaterFetchesOverlap ==
    (pc = "await" /\ idx < Len(matchIds)) =>
        \E j \in (idx + 1)..Len(matchIds) : status[j] # "none"

\* what the loop does instead: never more than one fetch in flight
InFlightAtMostOne == InFlight <= 1

\* C9: a batch is joined only after its own fetch has answered successfully,
\* and the joins happen one identifier at a time in identifier order.
JoinAfterOwnFetchInOrder ==
    /\ \A k \in 1..Len(joined) : joined[k] = k /\ status[k] = "ok"
    /\ Len(matchDetailsList) = Len(joined)
    /\ idx >= 1 => Len(joined) = idx - 1

JoinInOrderWitness ==
    /\ Len(joined) >= 2
    /\ pc = "await"
    /\ status[idx] = "running"

\* C10: one POST per input summary and never a second one; a call that
\* returns has made as many POSTs as there are summaries, none for an
\* empty list, and a failed fetch is not repeated.
OneFetchPerSummary ==
    /\ \A j \in Jobs : issued[j] <= 1
    /\ \A j \in Jobs : status[j] \in {"running", "ok", "err"} <=> issued[j] = 1
    /\ result.kind = "returned" =>
          /\ \A j \in 1..Len(matchSummaries) : issued[j] = 1
          /\ Len(issued) = Len(matchSummaries)
          /\ matchSummaries = <<>> => result.list = <<>>

OneFetchWitness ==
    /\ pc = "failed"
    /\ Len(matchSummaries) >= 2
    /\ \E j \in Jobs : status[j] = "err" /\ issued[j] = 1

\* C11: once the fetch of identifier i has failed, no fetch has been or is
\* ever started for a later identifier and no further record is joined.
NoFetchAfterFailure ==
    \A j \in Jobs : status[j] = "err" =>
        /\ \A m \in Jobs : m > j => status[m] = "none" /\ issued[m] = 0
        /\ queued = <<>> /\ running = {}
        /\ Len(matchDetailsList) = j - 1
        /\ Len(joined) = j - 1

NoFetchAfterFailureWitness ==
    /\ pc = "failed"
    /\ \E j \in Jobs : status[j] = "err" /\ j > 1 /\ j < Len(matchIds)

\* C12: in fetchAllMatchDetails a failed history request ends the whole
\* operation with that error and no detail fetch is ever issued; no detail
\* fetch is issued while the history request is pending.
SummaryFailureAborts ==
    /\ history = "err" => pc = "failed" /\ result = Thrown(0)
    /\ history \in {"pending", "err"} =>
          /\ matchIds = <<>> /\ issued = <<>>
          /\ queued = <<>> /\ running = {}
          /\ matchDetailsList = <<>>
    /\ (\E j \in DOMAIN issued : issued[j] > 0) => history \in {"none", "ok"}

SummaryFailureWitness ==
    /\ history = "err"
    /\ pc = "failed"
    /\ result.kind = "thrown"

\* C13: when every request is answered the call ends, by returning or by
\* failing; and as long as a fetch it issued is unanswered the call has
\* neither returned nor failed (there is no timeout and no cancellation).
TerminatesIffFetchesRespond ==
    /\ <>(pc \in {"done", "failed"})
    /\ [](running # {} => pc = "await" /\ result = Pending)
    /\ [](pc \in {"done", "failed"} => running = {} /\ queued = <<>>)

BlockedOnFetchWitness ==
    /\ pc = "await"
    /\ idx >= 2
    /\ running = {idx}
    /\ result = Pending

ChangeFields == {"matchmaking_change", "personal_change"}

\* the raw batch and the normalized batch of the k-th record of the output
RawOf(k) == data[joined[k]]
OutOf(k) == matchDetailsList[k].character_details

\* "+15 (200)"
ExampleRaw ==
    <<"2", "0", "0", " ", "(", "<", "s", "p", "a", "n", ">",
      "+", "1", "5", "<", "/", "s", "p", "a", "n", ">", ")">>
ExampleOut == <<"+", "1", "5", " ", "(", "2", "0", "0", ")">>

\* C14: a change field that is present and non-empty is rewritten to
\* "<delta> (<overall>)" exactly when the delta and the overall are both
\* found in it, and keeps its raw value when one of them is not; a batch
\* that was fetched never makes the call fail, whatever its fields hold.
RewriteIffBothExtracted ==
    /\ \A k \in 1..Len(matchDetailsList) :
           /\ Len(OutOf(k)) = Len(RawOf(k))
           /\ \A i \in 1..Len(RawOf(k)) : \A f \in ChangeFields :
                  Truthy(RawOf(k)[i], f) =>
                      LET raw == RawOf(k)[i][f]
                          out == OutOf(k)[i][f]
                          delta == MatchChange(raw)
                          overall == MatchOverall(raw)
                      IN  /\ delta # NoMatch /\ overall # NoMatch =>
                                 out = delta \o <<" ", "(">> \o overall \o <<")">>
                          /\ delta = NoMatch \/ overall = NoMatch => out = raw
                          /\ raw = ExampleRaw => out = ExampleOut
    /\ result.kind = "thrown" /\ result.job >= 1 => status[result.job] = "err"

\* a call has returned with the example field rewritten
RewriteWitness ==
    /\ result.kind = "returned"
    /\ \E k \in 1..Len(result.list) : \E f \in ChangeFields :
           /\ Truthy(RawOf(k)[1], f)
           /\ RawOf(k)[1][f] = ExampleRaw
           /\ result.list[k].character_details[1][f] = ExampleOut

\* C15: a change field that the payload did not carry is not there after
\* normalization, and one that was the empty string is still the empty
\* string; normalization adds no field to a character detail.
AbsentStaysAbsent ==
    \A k \in 1..Len(matchDetailsList) : \A i \in 1..Len(RawOf(k)) :
        /\ i \in DOMAIN OutOf(k)
        /\ DOMAIN OutOf(k)[i] = DOMAIN RawOf(k)[i]
        /\ \A f \in ChangeFields :
               f \in DOMAIN RawOf(k)[i] /\ RawOf(k)[i][f] = <<>> =>
                   OutOf(k)[i][f] = <<>>

\* a returned record holds a detail that came without matchmaking_change and
\* with an empty personal_change
AbsentFieldWitness ==
    /\ result.kind = "returned"
    /\ \E k \in 1..Len(result.list) : \E i \in 1..Len(RawOf(k)) :
           /\ "matchmaking_change" \notin DOMAIN RawOf(k)[i]
           /\ "matchmaking_change" \notin DOMAIN result.list[k].character_details[i]
           /\ RawOf(k)[i].personal_change = <<>>
           /\ result.list[k].character_details[i].personal_change = <<>>

\* where an identifier occurs in the caller's list
Occurrences(id) == {k \in 1..Len(matchSummaries) : matchSummaries[k].matchId = id}

\* C17: an identifier that several summaries share is fetched once for each
\* of them and yields one record for each of them, and each of these records
\* carries the fields of the first summary with that identifier.
DuplicatesCopyFirstSummary ==
    /\ \A k \in 1..Len(matchDetailsList) :
           LET rec == matchDetailsList[k]
               first == CHOOSE p \in Occurrences(rec.matchId) :
                            \A q \in Occurrences(rec.matchId) : p <= q
           IN  /\ Occurrences(rec.matchId) # {}
               /\ DOMAIN rec = DOMAIN matchSummaries[first] \cup {"character_details"}
               /\ \A f \in DOMAIN matchSummaries[first] :
                      rec[f] = matchSummaries[first][f]
    /\ result.kind = "returned" =>
           \A id \in IdsOf(matchSummaries) :
               /\ Cardinality({j \in Jobs : posted[j] = id /\ issued[j] = 1})
                      = Cardinality(Occurrences(id))
               /\ Cardinality({k \in 1..Len(result.list) : result.list[k].matchId = id})
                      = Cardinality(Occurrences(id))

\* a call has returned two records for one identifier whose two summaries
\* differ: the second record does not carry the summary of its own position
DuplicateIdWitness ==
    /\ result.kind = "returned"
    /\ \E k \in 1..Len(result.list) : \E p \in 1..Len(matchSummaries) :
           /\ p < joined[k]
           /\ matchSummaries[p].matchId = matchSummaries[joined[k]].matchId
           /\ matchSummaries[p].outcome # matchSummaries[joined[k]].outcome
           /\ result.list[k].outcome = matchSummaries[p].outcome
           /\ result.list[k].outcome # matchSummaries[joined[k]].outcome

\* C18: from the moment getMatchDetails is called its steps leave the
\* caller's list of summaries as it is, in length, order and fields, up to
\* and including the step that returns or fails.
SummariesNeverChanged ==
    [][pc # "history" => matchSummaries' = matchSummaries]_vars

\* a call has returned records whose character details were rewritten, for
\* a list of summaries none of which has gained a field
SummariesKeptWitness ==
    /\ result.kind = "returned"
    /\ Len(matchSummaries) >= 2
    /\ \E k \in 1..Len(result.list) : OutOf(k) # RawOf(k)
    /\ \A p \in 1..Len(matchSummaries) :
           "character_details" \notin DOMAIN matchSummaries[p]

====
